---- MODULE Spec2Model ----
(***************************************************************************)
(* LeaseLooker: the LeaseRAG hybrid retrieval session (src/LeaseRAG.py),   *)
(* its configuration (src/config.py) and the Streamlit web application     *)
(* that drives it (src/app.py, src/app_simple.py).                         *)
(***************************************************************************)
EXTENDS Integers, Sequences, FiniteSets, TLC

(***************************************************************************)
(* Bounds of the model.                                                    *)
(***************************************************************************)
\* Longest document (in chunks) whose retrieval is explored by SpecFusion.
MaxChunks == 3
\* Most entries the chat history grows to before questions stop being asked.
MaxHistory == 2
\* Most "Process Lease" clicks in one run of the application.
MaxUploads == 2

(***************************************************************************)
(* Configuration (src/config.py).  The weights 0.3 and 0.7 are kept in     *)
(* tenths so that every score is an exact integer ratio.                   *)
(***************************************************************************)
NUM_CHUNKS == 3
CHUNK_SIZE == 250
CHUNK_OVERLAP == 50
BM25_WEIGHT == 3
FAISS_WEIGHT == 7

\* The values NUM_CHUNKS is set to in the checked runs: the shipped default
\* and every smaller setting, 0 included.
NumChunksSettings == 0..NUM_CHUNKS

\* Page texts; two pages with the same text give two chunks with the same
\* page_content.
Texts == {"A", "B"}

Min(a, b) == IF a < b THEN a ELSE b

Range(s) == {s[i] : i \in 1..Len(s)}

\* The sequences of n distinct elements of S.
Rankings(S, n) == {r \in [1..n -> S] : \A i, j \in 1..n : i # j => r[i] # r[j]}

(***************************************************************************)
(* LeaseRAG._load_and_chunk_document.  A document is given by the texts of *)
(* its pages, each short enough to stay one chunk; PyPDFLoader numbers     *)
(* pages from 0 and records the path as "source".                          *)
(***************************************************************************)
split_documents(pdf_path, pages) ==
    [i \in 1..Len(pages) |->
        [page_content |-> pages[i], page |-> i - 1, source |-> pdf_path]]

(***************************************************************************)
(* The two retrievers built by LeaseRAG._setup_retrievers.  Each returns   *)
(* its k best chunks, best first, k = NUM_CHUNKS; which chunks and in which*)
(* order depends on the question, so every ranking is a possible answer.   *)
(* A retriever answers [ok, docs]; ok = FALSE is a raised exception.       *)
(***************************************************************************)
bm25_retriever(chunks, k) ==
    {[ok |-> TRUE, error |-> "", docs |-> r] :
        r \in Rankings(Range(chunks), Min(k, Len(chunks)))}

\* The FAISS retriever first embeds the question (a call to the embedding
\* service, which can fail) and then searches the index.  A search for k = 0
\* neighbours raises where the index asserts k > 0 and finds nothing where
\* assertions are compiled out: both are outcomes.
faiss_retriever(chunks, k) ==
    {[ok |-> FALSE, error |-> "embedding", docs |-> <<>>]} \cup
    (IF k = 0 THEN {[ok |-> FALSE, error |-> "search", docs |-> <<>>]} ELSE {}) \cup
    {[ok |-> TRUE, error |-> "", docs |-> r] :
        r \in Rankings(Range(chunks), Min(k, Len(chunks)))}

(***************************************************************************)
(* EnsembleRetriever(retrievers=[bm25, faiss], weights=[BM25_WEIGHT,       *)
(* FAISS_WEIGHT]): weighted reciprocal rank fusion with the default c = 60 *)
(* and documents identified by their page_content.                         *)
(***************************************************************************)
RRF_C == 60

\* The product (c+1)...(c+n): the common denominator of the rank terms.
RECURSIVE DenProd(_)
DenProd(n) == IF n = 0 THEN 1 ELSE (RRF_C + n) * DenProd(n - 1)

\* weight / (rank + c), as a multiple of 1 / DenProd(NUM_CHUNKS).
RankTerm(weight, rank) == weight * (DenProd(NUM_CHUNKS) \div (RRF_C + rank))

\* The contribution of one retriever's list to the score kept under `key`:
\* every document of the list whose page_content is `key` adds its term.
RECURSIVE ListScore(_, _, _)
ListScore(key, docs, weight) ==
    IF Len(docs) = 0 THEN 0
    ELSE ListScore(key, SubSeq(docs, 1, Len(docs) - 1), weight)
         + (IF docs[Len(docs)].page_content = key
            THEN RankTerm(weight, Len(docs)) ELSE 0)

\* The two weights given to the wrong retrievers.
rrf_score_swapped(key, bm25_docs, faiss_docs) ==
    ListScore(key, bm25_docs, FAISS_WEIGHT) + ListScore(key, faiss_docs, BM25_WEIGHT)

rrf_score(key, bm25_docs, faiss_docs) ==
    ListScore(key, bm25_docs, BM25_WEIGHT) + ListScore(key, faiss_docs, FAISS_WEIGHT)

\* unique_by_key(docs, page_content): the first document of each key.
RECURSIVE unique_by_key(_)
unique_by_key(docs) ==
    IF Len(docs) = 0 THEN <<>>
    ELSE LET init == SubSeq(docs, 1, Len(docs) - 1)
             last == docs[Len(docs)]
         IN  IF \E i \in 1..Len(init) : init[i].page_content = last.page_content
             THEN unique_by_key(init)
             ELSE Append(unique_by_key(init), last)

\* x placed behind every element of the sorted s whose score is not smaller.
RECURSIVE InsertByScore(_, _, _, _)
InsertByScore(x, s, bm25_docs, faiss_docs) ==
    IF Len(s) = 0 THEN <<x>>
    ELSE IF rrf_score(s[1].page_content, bm25_docs, faiss_docs)
            >= rrf_score(x.page_content, bm25_docs, faiss_docs)
         THEN <<s[1]>> \o InsertByScore(x, Tail(s), bm25_docs, faiss_docs)
         ELSE <<x>> \o s

\* A sort that leaves the documents in the order they were found.
sorted_by_score_unsorted(docs, bm25_docs, faiss_docs) == docs

\* sorted(docs, reverse=True, key=rrf_score): stable, highest score first.
RECURSIVE sorted_by_score(_, _, _)
sorted_by_score(docs, bm25_docs, faiss_docs) ==
    IF Len(docs) = 0 THEN <<>>
    ELSE InsertByScore(docs[Len(docs)],
                       sorted_by_score(SubSeq(docs, 1, Len(docs) - 1), bm25_docs, faiss_docs),
                       bm25_docs, faiss_docs)

\* A fusion that keeps only what both retrievers found.
weighted_reciprocal_rank_intersection(bm25_docs, faiss_docs) ==
    sorted_by_score(SelectSeq(unique_by_key(bm25_docs \o faiss_docs),
                              LAMBDA d : d \in Range(bm25_docs) /\ d \in Range(faiss_docs)),
                    bm25_docs, faiss_docs)

weighted_reciprocal_rank(bm25_docs, faiss_docs) ==
    sorted_by_score(unique_by_key(bm25_docs \o faiss_docs), bm25_docs, faiss_docs)

(***************************************************************************)
(* class LeaseRAG.  An instance is a record of its attributes; a retriever *)
(* or chain that is still None is [built |-> FALSE].  Construction answers *)
(* [raised, self, io]: whether __init__ raised, the object as far as it    *)
(* was built, and the external calls made (document load, embedding        *)
(* service, model client).                                                 *)
(***************************************************************************)
NotBuilt == [built |-> FALSE, docs |-> <<>>, k |-> 0]

\* The external services as one construction finds them.
Services == {"ok", "embedding_fails", "llm_client_fails"}

\* `chunk_size or CHUNK_SIZE` (lines 63-64): an omitted argument (None) and
\* a zero both give the default of config.py; 0 stands for both here.
or_default(value, default) == IF value = 0 THEN default ELSE value

\* Lines 62-68 of __init__: the attributes before anything is loaded.
NewLeaseRAG(pdf_path, chunk_size, chunk_overlap) ==
    [pdf_path |-> pdf_path,
     chunk_size |-> or_default(chunk_size, CHUNK_SIZE),
     chunk_overlap |-> or_default(chunk_overlap, CHUNK_OVERLAP),
     chunks |-> <<>>, num_chunks |-> 0,
     hybrid_retriever |-> NotBuilt, retriever_chain |-> NotBuilt]

\* RecursiveCharacterTextSplitter(chunk_size=..., chunk_overlap=...) of lines
\* 89-94 raises ValueError for an overlap larger than the chunk size.
text_splitter_accepts(chunk_size, chunk_overlap) ==
    /\ chunk_size > 0
    /\ chunk_overlap >= 0
    /\ chunk_overlap <= chunk_size

\* PyPDFLoader(pdf_path).load() raises on an unreadable file; the splitter is
\* constructed after the pages have been loaded.
load_and_chunk_document(self, pdf) ==
    IF ~pdf.readable
    THEN [raised |-> TRUE, error |-> "load", self |-> self, io |-> <<"load">>]
    ELSE IF ~text_splitter_accepts(self.chunk_size, self.chunk_overlap)
    THEN [raised |-> TRUE, error |-> "chunk sizes", self |-> self, io |-> <<"load">>]
    ELSE [raised |-> FALSE, error |-> "",
          self |-> [self EXCEPT !.chunks = split_documents(self.pdf_path, pdf.pages),
                                !.num_chunks = Len(pdf.pages)],
          io |-> <<"load">>]

\* FAISS.from_documents embeds every chunk: it raises when the embedding
\* service fails and when there is no chunk at all (no first vector to take
\* the dimension from).
setup_retrievers(self, services, k) ==
    IF services = "embedding_fails" \/ Len(self.chunks) = 0
    THEN [raised |-> TRUE, error |-> "embedding", self |-> self, io |-> <<"embed">>]
    ELSE [raised |-> FALSE, error |-> "",
          self |-> [self EXCEPT !.hybrid_retriever =
                                   [built |-> TRUE, docs |-> self.chunks, k |-> k]],
          io |-> <<"embed">>]

\* A set-up step that swallows the failure of the model client and returns
\* with retriever_chain still None.
setup_chain_swallows(self, services) ==
    IF services = "llm_client_fails"
    THEN [raised |-> FALSE, error |-> "", self |-> self, io |-> <<"llm_client">>]
    ELSE [raised |-> FALSE, error |-> "",
          self |-> [self EXCEPT !.retriever_chain = self.hybrid_retriever],
          io |-> <<"llm_client">>]

\* ChatOpenAI(...) and the two chain constructors.
setup_chain(self, services) ==
    IF services = "llm_client_fails"
    THEN [raised |-> TRUE, error |-> "llm_client", self |-> self, io |-> <<"llm_client">>]
    ELSE [raised |-> FALSE, error |-> "",
          self |-> [self EXCEPT !.retriever_chain = self.hybrid_retriever],
          io |-> <<"llm_client">>]

\* Lines 62-77: the attributes, the check of the API key, and the three
\* set-up steps in turn; `io` lists the external calls made.
LeaseRAG_init(pdf_path, chunk_size, chunk_overlap, pdf, has_api_key, services, k) ==
    LET self0 == NewLeaseRAG(pdf_path, chunk_size, chunk_overlap) IN
    IF ~has_api_key
    THEN [raised |-> TRUE, error |-> "OPENAI_API_KEY environment variable not set",
          self |-> self0, io |-> <<>>]
    ELSE LET a == load_and_chunk_document(self0, pdf) IN
         IF a.raised THEN a
         ELSE LET b == setup_retrievers(a.self, services, k) IN
              IF b.raised THEN [b EXCEPT !.io = a.io \o b.io]
              ELSE LET c == setup_chain(b.self, services) IN
                   [c EXCEPT !.io = a.io \o b.io \o c.io]

\* Every attribute that __init__ sets is set.
FullyConstructed(rag) ==
    /\ rag.hybrid_retriever.built
    /\ rag.retriever_chain.built
    /\ rag.hybrid_retriever.docs = rag.chunks
    /\ rag.retriever_chain = rag.hybrid_retriever
    /\ rag.num_chunks = Len(rag.chunks)

(***************************************************************************)
(* LeaseRAG.query, in the two halves of retriever_chain.invoke: the        *)
(* ensemble retriever fills "context", then the stuff-documents chain puts *)
(* every context document into the prompt and calls the model once.        *)
(***************************************************************************)
\* The guard of query (lines 172-173).
query_guard(self) == self.retriever_chain.built

\* The outcomes of the retrieval half: [raised, error, bm25, faiss, context].
retrieve(self) ==
    {[raised |-> ~f.ok,
      error |-> f.error,
      bm25 |-> b.docs,
      faiss |-> f.docs,
      context |-> IF f.ok THEN weighted_reciprocal_rank(b.docs, f.docs) ELSE <<>>] :
        b \in bm25_retriever(self.retriever_chain.docs, self.retriever_chain.k),
        f \in faiss_retriever(self.retriever_chain.docs, self.retriever_chain.k)}

\* create_stuff_documents_chain: the page_content of every context document,
\* in order, formatted into {context} (the metadata is not part of the prompt).
prompt_context(context) == [i \in 1..Len(context) |-> context[i].page_content]

\* Sources that report the best document only.
extract_sources_first(context) ==
    [i \in 1..Min(Len(context), 1) |->
        [content |-> context[i].page_content, page |-> context[i].page,
         source |-> context[i].source]]

\* Lines 179-185: one source entry per document of response['context'].
RECURSIVE extract_sources(_)
extract_sources(context) ==
    IF Len(context) = 0 THEN <<>>
    ELSE Append(extract_sources(SubSeq(context, 1, Len(context) - 1)),
                [content |-> context[Len(context)].page_content,
                 page |-> context[Len(context)].page,
                 source |-> context[Len(context)].source])

Questions == {"How much is the rent?", "Can I have pets?"}

(***************************************************************************)
(* The web application (src/app.py; src/app_simple.py is the same without  *)
(* the chat history) and the state of one browser session.                 *)
(***************************************************************************)
VARIABLES
    num_chunks_setting, \* the value of NUM_CHUNKS this process runs with
    rag_system,         \* st.session_state.rag_system: [set, obj], set = FALSE is None
    pdf_processed,      \* st.session_state.pdf_processed
    chat_history,       \* st.session_state.chat_history
    tmp_files,          \* the temporary PDF copies on disk
    next_tmp,           \* the name the next temporary file gets
    pc,                 \* where the script run is: "idle", "retrieving", "completing"
    inflight,           \* the question being answered and the object it was asked of
    \* History variables: they record what the handlers did and steer nothing.
    facade,             \* "Empty" or "Ready": the outcome of the last Process Lease
    last_ok_path,       \* the document of the last successful Process Lease (0: none)
    last_ingest,        \* what the last Process Lease click did
    last_ask,           \* what the last question did
    llm_failed_on,      \* the documents on which a completion call has failed
    \* The standalone retriever call of SpecFusion.
    ens,                \* one call of the ensemble retriever (SpecFusion)
    \* The standalone construction of SpecConstruct.
    ctor                \* one call of LeaseRAG(pdf_path, chunk_size, chunk_overlap)

vars == <<num_chunks_setting, rag_system, pdf_processed, chat_history, tmp_files,
          next_tmp, pc, inflight, facade, last_ok_path, last_ingest, last_ask,
          llm_failed_on, ens, ctor>>

session_vars == <<num_chunks_setting, rag_system, pdf_processed, chat_history,
                  tmp_files, next_tmp, pc, inflight, facade, last_ok_path,
                  last_ingest, last_ask, llm_failed_on>>

\* The PDFs uploaded in the checked runs: a corrupt file, a file without
\* extractable text, a two-page lease, and a lease whose two pages read alike.
Uploads ==
    {[readable |-> FALSE, pages |-> <<>>],
     [readable |-> TRUE, pages |-> <<>>],
     [readable |-> TRUE, pages |-> <<"A", "B">>],
     [readable |-> TRUE, pages |-> <<"A", "A">>]}

NoInflight == [question |-> "", rag |-> [set |-> FALSE, obj |-> NewLeaseRAG(0, 0, 0)],
               bm25 |-> <<>>, faiss |-> <<>>, context |-> <<>>,
               retriever_calls |-> 0, llm_calls |-> 0,
               issued_in |-> "Empty", ingested |-> 0]

NoAsk == [kind |-> "none", error |-> "", issued_in |-> "Empty", question |-> "",
          retriever_calls |-> 0, llm_calls |-> 0, prompt |-> <<>>,
          answer |-> "", sources |-> <<>>, context |-> <<>>,
          rag |-> [set |-> FALSE, obj |-> NewLeaseRAG(0, 0, 0)], ingested |-> 0,
          uploads_before |-> 0, history_before |-> <<>>]

NoIngest == [kind |-> "none", path |-> 0, from |-> "Empty", io |-> <<>>,
             unlink |-> "not reached"]

EnsOff == [pc |-> "off", chunks |-> <<>>, k |-> 0, bm25 |-> <<>>, faiss |-> <<>>,
           fused |-> <<>>]

NoResult == [raised |-> FALSE, error |-> "", self |-> NewLeaseRAG(0, 0, 0), io |-> <<>>]

CtorOff == [pc |-> "off", chunk_size |-> 0, chunk_overlap |-> 0,
            pdf |-> [readable |-> FALSE, pages |-> <<>>], has_api_key |-> FALSE,
            services |-> "ok", result |-> NoResult]

\* Lines 54-60: the session state of a fresh session.
Init ==
    /\ num_chunks_setting \in NumChunksSettings
    /\ rag_system = [set |-> FALSE, obj |-> NewLeaseRAG(0, 0, 0)]
    /\ pdf_processed = FALSE
    /\ chat_history = <<>>
    /\ tmp_files = {}
    /\ next_tmp = 1
    /\ pc = "idle"
    /\ inflight = NoInflight
    /\ facade = "Empty"
    /\ last_ok_path = 0
    /\ last_ingest = NoIngest
    /\ last_ask = NoAsk
    /\ llm_failed_on = {}
    /\ ens = EnsOff
    /\ ctor = CtorOff

\* Handlers that start whatever else is running.
ScriptIdle_Concurrent == TRUE

\* The script is one sequential pass per interaction: a handler starts only
\* when no other is running.
ScriptIdle == pc = "idle"

\* An except branch that leaves pdf_processed as it was.
ProcessLeaseFailed_KeepsFlag(partial) ==
    UNCHANGED <<pdf_processed, rag_system, chat_history>>

\* An object stored before it is initialised, and kept when that fails.
ProcessLeaseFailed_KeepsPartial(partial) ==
    /\ pdf_processed' = FALSE
    /\ rag_system' = [set |-> TRUE, obj |-> partial]
    /\ UNCHANGED chat_history

\* Lines 108-110: what the handler's except branch leaves in the session.
\* `partial` is the object __init__ was building when it raised: the
\* assignment of line 98 never happens, so it is dropped.
ProcessLeaseFailed(partial) ==
    /\ pdf_processed' = FALSE
    /\ UNCHANGED <<rag_system, chat_history>>

\* A session that builds its LeaseRAG once and keeps it.
ProcessLeaseSucceeded_KeepsFirst(obj) ==
    /\ rag_system' = IF rag_system.set THEN rag_system ELSE [set |-> TRUE, obj |-> obj]
    /\ chat_history' = <<>>

\* A handler without line 100: the chat history outlives the document.
ProcessLeaseSucceeded_KeepsHistory(obj) ==
    /\ rag_system' = [set |-> TRUE, obj |-> obj]
    /\ UNCHANGED chat_history

\* Lines 98-100: the new object replaces the old one.
ProcessLeaseSucceeded(obj) ==
    /\ rag_system' = [set |-> TRUE, obj |-> obj]
    /\ chat_history' = <<>>

\* Lines 88-110: the "Process Lease" button, with a file uploaded and an API
\* key entered (line 78 has put the key in the environment).
ProcessLease(pdf, services, unlink_ok) ==
    /\ ScriptIdle
    /\ next_tmp <= MaxUploads
    /\ LET tmp_path == next_tmp
           r == LeaseRAG_init(tmp_path, 0, 0, pdf, TRUE, services, num_chunks_setting)
           ok == ~r.raised /\ unlink_ok
       IN  /\ next_tmp' = next_tmp + 1
           /\ IF r.raised
              THEN ProcessLeaseFailed(r.self)
              ELSE /\ ProcessLeaseSucceeded(r.self)
                   /\ pdf_processed' = unlink_ok
           /\ tmp_files' = IF ok THEN tmp_files ELSE tmp_files \cup {tmp_path}
           /\ facade' = IF ok THEN "Ready" ELSE "Empty"
           /\ last_ok_path' = IF ok THEN tmp_path ELSE last_ok_path
           /\ last_ingest' = [kind |-> IF ok THEN "ok" ELSE "failed",
                              path |-> tmp_path, from |-> facade, io |-> r.io,
                              unlink |-> IF r.raised THEN "not reached"
                                         ELSE IF unlink_ok THEN "done"
                                         ELSE "raised"]
    /\ UNCHANGED <<num_chunks_setting, pc, inflight, last_ask, llm_failed_on, ens, ctor>>

\* Lines 145-148 and 151: a sample question clicked while pdf_processed is
\* false sets nothing, and the main area shows the welcome screen.
AskIgnored(q) ==
    /\ ScriptIdle
    /\ ~pdf_processed
    /\ last_ask' = [NoAsk EXCEPT !.kind = "ignored", !.issued_in = facade,
                                 !.question = q, !.rag = rag_system,
                                 !.ingested = last_ok_path,
                                 !.uploads_before = next_tmp - 1,
                                 !.history_before = chat_history]
    /\ UNCHANGED <<num_chunks_setting, rag_system, pdf_processed, chat_history,
                   tmp_files, next_tmp, pc, inflight, facade, last_ok_path,
                   last_ingest, llm_failed_on, ens, ctor>>

\* Lines 170-210: a question typed or a sample question clicked in the chat
\* interface; rag_system is read and its query method entered.
AskStart(q) ==
    /\ ScriptIdle
    /\ pdf_processed
    /\ Len(chat_history) < MaxHistory
    /\ pc' = "retrieving"
    /\ inflight' = [NoInflight EXCEPT !.question = q, !.rag = rag_system,
                                      !.issued_in = facade, !.ingested = last_ok_path]
    /\ UNCHANGED <<num_chunks_setting, rag_system, pdf_processed, chat_history,
                   tmp_files, next_tmp, facade, last_ok_path, last_ingest,
                   last_ask, llm_failed_on, ens, ctor>>

\* The record of a question that ended in the handler's except branch.
AskError(error, retriever_calls, llm_calls, prompt) ==
    [NoAsk EXCEPT !.kind = "error", !.error = error,
                  !.issued_in = inflight.issued_in, !.question = inflight.question,
                  !.retriever_calls = retriever_calls, !.llm_calls = llm_calls,
                  !.prompt = prompt, !.context = inflight.context,
                  !.rag = inflight.rag, !.ingested = inflight.ingested,
                  !.uploads_before = next_tmp - 1,
                  !.history_before = chat_history]

\* A handler that answers an error of query by sending the user back to the
\* welcome screen.
QueryFailed_ResetsSession ==
    /\ pdf_processed' = FALSE
    /\ rag_system' = [set |-> FALSE, obj |-> NewLeaseRAG(0, 0, 0)]
    /\ UNCHANGED chat_history

\* Lines 229-239: the except branch of the question handler shows the error
\* and touches nothing in the session.
QueryFailed ==
    UNCHANGED <<rag_system, pdf_processed, chat_history>>

\* LeaseRAG.query up to the end of the retrieval half of the chain.
AskRetrieve ==
    /\ pc = "retrieving"
    /\ IF ~inflight.rag.set
       THEN /\ last_ask' = AskError("no_rag_system", 0, 0, <<>>)
            /\ pc' = "idle"
            /\ inflight' = NoInflight
            /\ QueryFailed
       ELSE IF ~query_guard(inflight.rag.obj)
       THEN /\ last_ask' = AskError("RAG system not initialized", 0, 0, <<>>)
            /\ pc' = "idle"
            /\ inflight' = NoInflight
            /\ QueryFailed
       ELSE \E r \in retrieve(inflight.rag.obj) :
              IF r.raised
              THEN /\ last_ask' = AskError(r.error, inflight.retriever_calls + 1, 0, <<>>)
                   /\ pc' = "idle"
                   /\ inflight' = NoInflight
                   /\ QueryFailed
              ELSE /\ inflight' = [inflight EXCEPT
                                       !.bm25 = r.bm25, !.faiss = r.faiss,
                                       !.context = r.context,
                                       !.retriever_calls = inflight.retriever_calls + 1]
                   /\ pc' = "completing"
                   /\ UNCHANGED <<last_ask, rag_system, pdf_processed, chat_history>>
    /\ UNCHANGED <<num_chunks_setting, tmp_files, next_tmp, facade, last_ok_path,
                   last_ingest, llm_failed_on, ens, ctor>>

\* Lines 187-191 and 211-227: the response of query and what the handler
\* appends to the chat history.
AskAnswered(answer) ==
    /\ last_ask' = [NoAsk EXCEPT !.kind = "answered",
                                 !.issued_in = inflight.issued_in,
                                 !.question = inflight.question,
                                 !.retriever_calls = inflight.retriever_calls,
                                 !.llm_calls = inflight.llm_calls + 1,
                                 !.prompt = prompt_context(inflight.context),
                                 !.answer = answer,
                                 !.sources = extract_sources(inflight.context),
                                 !.context = inflight.context,
                                 !.rag = inflight.rag,
                                 !.ingested = inflight.ingested,
                                 !.uploads_before = next_tmp - 1,
                                 !.history_before = chat_history]
    /\ chat_history' = Append(chat_history,
                              [question |-> inflight.question, answer |-> answer,
                               sources |-> extract_sources(inflight.context)])

\* A chain that calls the model a second time when the first call raises.
CompletionRaised_Retries(calls) ==
    IF calls < 2
    THEN /\ inflight' = [inflight EXCEPT !.llm_calls = calls]
         /\ UNCHANGED <<last_ask, llm_failed_on, pc>>
    ELSE /\ last_ask' = AskError("completion", inflight.retriever_calls, calls,
                                 prompt_context(inflight.context))
         /\ llm_failed_on' = llm_failed_on \cup {inflight.rag.obj.pdf_path}
         /\ pc' = "idle"
         /\ inflight' = NoInflight

\* Line 176 has no try around it and the chain no retry step: an exception of
\* the model call (the `calls`-th of this question) leaves query at once.
CompletionRaised(calls) ==
    /\ last_ask' = AskError("completion", inflight.retriever_calls, calls,
                            prompt_context(inflight.context))
    /\ llm_failed_on' = llm_failed_on \cup {inflight.rag.obj.pdf_path}
    /\ pc' = "idle"
    /\ inflight' = NoInflight

\* The completion half of the chain: the model is called once with the
\* prompt, whatever the context holds, and answers or raises.
AskComplete(llm_ok) ==
    /\ pc = "completing"
    /\ IF llm_ok
       THEN /\ AskAnswered("completion")
            /\ pc' = "idle"
            /\ inflight' = NoInflight
            /\ UNCHANGED <<llm_failed_on, rag_system, pdf_processed>>
       ELSE /\ CompletionRaised(inflight.llm_calls + 1)
            /\ QueryFailed
    /\ UNCHANGED <<num_chunks_setting, tmp_files, next_tmp, facade, last_ok_path,
                   last_ingest, ens, ctor>>

Next ==
    \/ \E pdf \in Uploads, services \in Services, unlink_ok \in BOOLEAN :
          ProcessLease(pdf, services, unlink_ok)
    \/ \E q \in Questions : AskIgnored(q)
    \/ \E q \in Questions : AskStart(q)
    \/ AskRetrieve
    \/ \E llm_ok \in BOOLEAN : AskComplete(llm_ok)

Spec == Init /\ [][Next]_vars

(***************************************************************************)
(* One call of hybrid_retriever.invoke(question) on its own: the documents *)
(* and the setting of NUM_CHUNKS are drawn at the start, BM25 and FAISS    *)
(* answer in turn (EnsembleRetriever.rank_fusion), and the two lists are   *)
(* fused.                                                                  *)
(***************************************************************************)
\* The documents that can be indexed: 1..MaxChunks pages of text.
IndexedDocuments ==
    UNION {[1..n -> Texts] : n \in 1..MaxChunks}

FusionInit ==
    /\ num_chunks_setting \in NumChunksSettings
    /\ rag_system = [set |-> FALSE, obj |-> NewLeaseRAG(0, 0, 0)]
    /\ pdf_processed = FALSE
    /\ chat_history = <<>>
    /\ tmp_files = {}
    /\ next_tmp = 1
    /\ pc = "idle"
    /\ inflight = NoInflight
    /\ facade = "Empty"
    /\ last_ok_path = 0
    /\ last_ingest = NoIngest
    /\ last_ask = NoAsk
    /\ llm_failed_on = {}
    /\ \E pages \in IndexedDocuments :
          ens = [EnsOff EXCEPT !.pc = "bm25", !.chunks = split_documents(1, pages),
                               !.k = num_chunks_setting]
    /\ ctor = CtorOff

EnsBM25 ==
    /\ ens.pc = "bm25"
    /\ \E b \in bm25_retriever(ens.chunks, ens.k) :
          ens' = [ens EXCEPT !.pc = "faiss", !.bm25 = b.docs]
    /\ UNCHANGED <<session_vars, ctor>>

EnsFAISS ==
    /\ ens.pc = "faiss"
    /\ \E f \in faiss_retriever(ens.chunks, ens.k) :
          ens' = [ens EXCEPT !.pc = IF f.ok THEN "fuse" ELSE "raised", !.faiss = f.docs]
    /\ UNCHANGED <<session_vars, ctor>>

EnsFuse ==
    /\ ens.pc = "fuse"
    /\ ens' = [ens EXCEPT !.pc = "done",
                          !.fused = weighted_reciprocal_rank(ens.bm25, ens.faiss)]
    /\ UNCHANGED <<session_vars, ctor>>

FusionNext == EnsBM25 \/ EnsFAISS \/ EnsFuse

SpecFusion == FusionInit /\ [][FusionNext]_vars

(***************************************************************************)
(* One construction LeaseRAG(pdf_path, chunk_size, chunk_overlap) on its   *)
(* own, as the command-line entry points and a caller of the class make    *)
(* it: the arguments, the environment and the services are drawn at the    *)
(* start, then __init__ runs.                                              *)
(***************************************************************************)
\* The chunk_size and chunk_overlap arguments tried (0: omitted).
ChunkSizeArgs == {0, 100, 300}
ChunkOverlapArgs == {0, 200}

ConstructInit ==
    /\ num_chunks_setting \in NumChunksSettings
    /\ rag_system = [set |-> FALSE, obj |-> NewLeaseRAG(0, 0, 0)]
    /\ pdf_processed = FALSE
    /\ chat_history = <<>>
    /\ tmp_files = {}
    /\ next_tmp = 1
    /\ pc = "idle"
    /\ inflight = NoInflight
    /\ facade = "Empty"
    /\ last_ok_path = 0
    /\ last_ingest = NoIngest
    /\ last_ask = NoAsk
    /\ llm_failed_on = {}
    /\ ens = EnsOff
    /\ \E chunk_size \in ChunkSizeArgs, chunk_overlap \in ChunkOverlapArgs,
          pdf \in Uploads, has_api_key \in BOOLEAN, services \in Services :
          ctor = [CtorOff EXCEPT !.pc = "args", !.chunk_size = chunk_size,
                                 !.chunk_overlap = chunk_overlap, !.pdf = pdf,
                                 !.has_api_key = has_api_key, !.services = services]

\* rag = LeaseRAG(pdf_path, ...): __init__ returns the object or raises.
Construct ==
    /\ ctor.pc = "args"
    /\ LET r == LeaseRAG_init(1, ctor.chunk_size, ctor.chunk_overlap, ctor.pdf,
                              ctor.has_api_key, ctor.services, num_chunks_setting)
       IN  ctor' = [ctor EXCEPT !.pc = IF r.raised THEN "raised" ELSE "constructed",
                                !.result = r]
    /\ UNCHANGED <<session_vars, ens>>

\* rag.query(question) on the constructed object, up to the end of the
\* retrieval half of the chain.
ConstructedQuery ==
    /\ ctor.pc = "constructed"
    /\ \E r \in retrieve(ctor.result.self) :
          ctor' = [ctor EXCEPT !.pc = IF r.raised THEN "query raised" ELSE "retrieved",
                               !.result.error = r.error]
    /\ UNCHANGED <<session_vars, ens>>

ConstructNext == Construct \/ ConstructedQuery

SpecConstruct == ConstructInit /\ [][ConstructNext]_vars

(***************************************************************************)
(* The claims.                                                             *)
(***************************************************************************)
TextsOf(docs) == {docs[i].page_content : i \in 1..Len(docs)}

NoRepeat(s) == \A i, j \in 1..Len(s) : i # j => s[i] # s[j]

\* The sum of weight / (rank + c) over the ranks in I, as RankTerm counts it.
RECURSIVE SumOfRankTerms(_, _)
SumOfRankTerms(I, weight) ==
    IF I = {} THEN 0
    ELSE LET i == CHOOSE x \in I : TRUE
         IN  weight * (DenProd(NUM_CHUNKS) \div (RRF_C + i))
             + SumOfRankTerms(I \ {i}, weight)

\* C4 as stated: the chunks of the fused result are exactly the chunks of the
\* BM25 list and of the FAISS list together, none of them twice.
C4_FusedIsUnionOfChunks ==
    ens.pc = "done" =>
        /\ Range(ens.fused) = Range(ens.bm25) \cup Range(ens.faiss)
        /\ NoRepeat(ens.fused)

\* C4 as amended: the fused result holds one chunk for every page_content found
\* by BM25 or by FAISS (a union, also of disjoint lists) and nothing from
\* outside the two lists, no chunk and no page_content twice; of several chunks
\* with the same page_content it keeps the first in BM25-then-FAISS order.
C4_FusedIsUnionByContent ==
    ens.pc = "done" =>
        LET found == ens.bm25 \o ens.faiss IN
        /\ Range(ens.fused) \subseteq Range(found)
        /\ TextsOf(ens.fused) = TextsOf(found)
        /\ NoRepeat(ens.fused)
        /\ NoRepeat([i \in 1..Len(ens.fused) |-> ens.fused[i].page_content])
        /\ \A d \in Range(ens.fused) :
              \E i \in 1..Len(found) :
                  /\ found[i] = d
                  /\ \A j \in 1..(i - 1) : found[j].page_content # d.page_content

\* C4's case: two disjoint lists, every chunk of both in the fused result.
C4_Witness ==
    /\ ens.pc = "done"
    /\ Len(ens.bm25) > 0 /\ Len(ens.faiss) > 0
    /\ Range(ens.bm25) \cap Range(ens.faiss) = {}
    /\ Len(ens.fused) = Len(ens.bm25) + Len(ens.faiss)

\* C5 as stated: the fused list is no longer than NUM_CHUNKS.
C5_FusedAtMostTopN ==
    ens.pc = "done" => Len(ens.fused) <= ens.k

\* The score C6 gives a chunk: for each list the chunk is in, the weight of the
\* list times the rank score 1 / (rank + c) of the chunk in it, and 0 for a
\* list the chunk is not in.
C6_ChunkScore(d) ==
    SumOfRankTerms({i \in 1..Len(ens.bm25) : ens.bm25[i] = d}, BM25_WEIGHT)
    + SumOfRankTerms({i \in 1..Len(ens.faiss) : ens.faiss[i] = d}, FAISS_WEIGHT)

\* The score the fused result is ordered by: every entry of a list with the
\* chunk's page_content counts, whichever chunk it is.
C6_ContentScore(d) ==
    SumOfRankTerms({i \in 1..Len(ens.bm25) :
                      ens.bm25[i].page_content = d.page_content}, BM25_WEIGHT)
    + SumOfRankTerms({i \in 1..Len(ens.faiss) :
                        ens.faiss[i].page_content = d.page_content}, FAISS_WEIGHT)

\* C6 as stated: the fused result is in non-increasing order of
\* lexical_weight * lexical_score(chunk) + semantic_weight * semantic_score(chunk),
\* a chunk absent from a list scoring 0 there.
C6_OrderedByChunkScore ==
    ens.pc = "done" =>
        \A i, j \in 1..Len(ens.fused) :
            i < j => C6_ChunkScore(ens.fused[i]) >= C6_ChunkScore(ens.fused[j])

\* C6 as amended: the fused result is in non-increasing order of
\* lexical_weight * lexical_score + semantic_weight * semantic_score, where a
\* method's score of a chunk is the sum of 1 / (rank + 60) over the entries of
\* its list that have the chunk's page_content, and 0 when there is none.
C6_OrderedByContentScore ==
    ens.pc = "done" =>
        \A i, j \in 1..Len(ens.fused) :
            i < j => C6_ContentScore(ens.fused[i]) >= C6_ContentScore(ens.fused[j])

\* C6's case: a chunk that only FAISS found is ranked above a chunk that only
\* BM25 found at a better rank, by the weights alone.
C6_Witness ==
    /\ ens.pc = "done"
    /\ Len(ens.fused) >= 2
    /\ ens.fused[1] \notin Range(ens.bm25)
    /\ ens.fused[2] \notin Range(ens.faiss)
    /\ C6_ContentScore(ens.fused[1]) > C6_ContentScore(ens.fused[2])
    /\ ens.fused[1] # (ens.bm25 \o ens.faiss)[1]

\* An ask has finished, one way or another.
Asked == last_ask.kind # "none"

\* The ask returned no QueryResponse: no answer, no sources.
NoResponse(ask) == ask.answer = "" /\ ask.sources = <<>>

C2_FailedIngestLeavesEmpty ==
    last_ingest.kind = "failed" =>
        /\ facade = "Empty"
        /\ ~pdf_processed
        /\ pc = "idle"
        /\ rag_system.set => FullyConstructed(rag_system.obj)
        /\ rag_system.set => rag_system.obj.pdf_path # last_ingest.path
                             \/ last_ingest.io = <<"load", "embed", "llm_client">>
        /\ (Asked /\ last_ask.uploads_before >= last_ingest.path) =>
              /\ last_ask.kind = "ignored"
              /\ NoResponse(last_ask)
              /\ last_ask.retriever_calls = 0 /\ last_ask.llm_calls = 0

\* C2's case: a re-ingest from Ready fails while the index is built (the
\* embedding step), and a question is asked afterwards.
C2_Witness ==
    /\ last_ingest.kind = "failed"
    /\ last_ingest.from = "Ready"
    /\ last_ingest.io = <<"load", "embed">>
    /\ Asked /\ last_ask.uploads_before >= last_ingest.path

\* C3: every answer is built from the document of the last successful Process
\* Lease at the time of the question: the object queried is the one stored by
\* it, and every source is a chunk of that document, none of an earlier one.
C3_AnswersComeFromLastIngest ==
    /\ pc # "idle" => inflight.rag.set /\ inflight.rag.obj.pdf_path = inflight.ingested
    /\ last_ask.kind = "answered" =>
          /\ last_ask.rag.obj.pdf_path = last_ask.ingested
          /\ \A i \in 1..Len(last_ask.sources) :
                /\ last_ask.sources[i].source = last_ask.ingested
                /\ \E c \in Range(last_ask.rag.obj.chunks) :
                      /\ c.page_content = last_ask.sources[i].content
                      /\ c.page = last_ask.sources[i].page
                      /\ c.source = last_ask.sources[i].source

\* C3's case: an answer with sources, given after a re-ingest from Ready.
C3_Witness ==
    /\ last_ask.kind = "answered"
    /\ Len(last_ask.sources) > 0
    /\ last_ingest.kind = "ok" /\ last_ingest.from = "Ready"
    /\ last_ask.ingested = last_ingest.path

\* C7: the sources of an answer are the documents put in the prompt, one source
\* for each, in the prompt's order: the same page_content, and the page and the
\* file of the document it came from.
C7_SourcesArePromptContext ==
    last_ask.kind = "answered" =>
        /\ Len(last_ask.sources) = Len(last_ask.prompt)
        /\ Len(last_ask.sources) = Len(last_ask.context)
        /\ \A i \in 1..Len(last_ask.sources) :
              /\ last_ask.sources[i].content = last_ask.prompt[i]
              /\ last_ask.sources[i].content = last_ask.context[i].page_content
              /\ last_ask.sources[i].page = last_ask.context[i].page
              /\ last_ask.sources[i].source = last_ask.context[i].source
        /\ Len(chat_history) > 0 /\ last_ask.uploads_before = next_tmp - 1 =>
              chat_history[Len(chat_history)].sources = last_ask.sources

\* C7's case: an answer from a prompt of two documents.
C7_Witness ==
    /\ last_ask.kind = "answered"
    /\ Len(last_ask.prompt) = 2
    /\ last_ask.prompt[1] # last_ask.prompt[2]

\* C8 as stated: with NUM_CHUNKS = 0 and the embedding service working the
\* fused result is empty and retrieval raises nothing, and an ask whose fused
\* result is empty never calls the completion service: it ends in an error.
C8_EmptyContextNeverCompleted ==
    /\ (Asked /\ last_ask.retriever_calls = 1 /\ last_ask.rag.obj.retriever_chain.k = 0
          /\ last_ask.error # "embedding") => last_ask.error # "search"
    /\ (Asked /\ last_ask.retriever_calls = 1 /\ last_ask.context = <<>>) =>
          /\ last_ask.llm_calls = 0
          /\ last_ask.kind = "error"

\* C9: when the completion service fails, the ask returns no response and, as
\* long as no lease is processed, the session is as the ask found it: still
\* Ready, with the same LeaseRAG (chunks, retriever, chain) and the same chat
\* history, and the next question is asked of that same LeaseRAG.
C9_CompletionFailureKeepsSession ==
    (last_ask.kind = "error" /\ last_ask.error = "completion"
       /\ last_ask.uploads_before = next_tmp - 1) =>
        /\ NoResponse(last_ask)
        /\ last_ask.llm_calls = 1
        /\ pdf_processed /\ facade = "Ready"
        /\ rag_system = last_ask.rag
        /\ FullyConstructed(rag_system.obj)
        /\ chat_history = last_ask.history_before
        /\ pc # "idle" => inflight.rag = last_ask.rag

\* C9's case: a question answered by the LeaseRAG on which an earlier completion
\* call failed, so without a re-ingest in between.
C9_Witness ==
    /\ last_ask.kind = "answered"
    /\ last_ask.rag.obj.pdf_path \in llm_failed_on
    /\ rag_system = last_ask.rag

C11_AnsweredAfterOneCompletion ==
    /\ last_ask.kind = "answered" =>
          /\ last_ask.llm_calls = 1
          /\ last_ask.retriever_calls = 1
    /\ pc # "idle" => inflight.llm_calls = 0
    /\ pc = "completing" => inflight.retriever_calls = 1

C11_Witness ==
    /\ last_ask.kind = "answered"
    /\ last_ask.issued_in = "Ready"
    /\ last_ask.llm_calls = 1
    /\ last_ask.rag.obj.pdf_path \in llm_failed_on

\* Whether the chunk sizes an object would run with are usable.
ValidChunkSizes(chunk_size, chunk_overlap) ==
    LET size == or_default(chunk_size, CHUNK_SIZE)
        overlap == or_default(chunk_overlap, CHUNK_OVERLAP)
    IN  0 < size /\ 0 <= overlap /\ overlap <= size

\* C12: a construction without an API key or with unusable chunk sizes raises
\* before any external call (document load, embedding, model client) is made,
\* and no query of a constructed object fails on the configuration.
C12_RejectedBeforeAnyIO ==
    /\ (/\ ctor.pc \notin {"off", "args"}
        /\ \/ ~ctor.has_api_key
           \/ ~ValidChunkSizes(ctor.chunk_size, ctor.chunk_overlap))
        => /\ ctor.pc = "raised"
           /\ ctor.result.raised
           /\ ctor.result.io = <<>>
    /\ ctor.pc \in {"query raised", "retrieved"}
        => /\ ctor.has_api_key
           /\ ValidChunkSizes(ctor.chunk_size, ctor.chunk_overlap)

\* C13: with two chunks of different text (page 1, page 2) of which the
\* semantic search ranks the page-2 chunk first, and whatever order the
\* lexical search returns the two in, the fused result starts with the
\* page-2 chunk, for every NUM_CHUNKS of at least 1.
C13_SemanticWinnerComesFirst ==
    (/\ ens.pc = "done"
     /\ Len(ens.chunks) = 2
     /\ ens.chunks[1].page_content # ens.chunks[2].page_content
     /\ ens.k >= 1
     /\ ens.faiss = SubSeq(<<ens.chunks[2], ens.chunks[1]>>, 1, Min(ens.k, 2)))
        => /\ Len(ens.fused) >= 1
           /\ ens.fused[1] = ens.chunks[2]
           /\ ens.fused[1].page = 1

\* The lexical search lists page 1 first, the semantic search page 2.
C13_Witness ==
    /\ ens.pc = "done"
    /\ Len(ens.chunks) = 2
    /\ ens.k = NUM_CHUNKS
    /\ ens.bm25 = <<ens.chunks[1], ens.chunks[2]>>
    /\ ens.faiss = <<ens.chunks[2], ens.chunks[1]>>
    /\ ens.fused = <<ens.chunks[2], ens.chunks[1]>>

\* C14: whenever pdf_processed is true, rag_system holds an object with its
\* chunks, hybrid_retriever and retriever_chain all set; every question in
\* flight was asked of such an object, and no question has ended on a missing
\* object or on query's "RAG system not initialized" guard.
C14_ProcessedImpliesFullyConstructed ==
    /\ pdf_processed =>
          /\ rag_system.set
          /\ FullyConstructed(rag_system.obj)
          /\ Len(rag_system.obj.chunks) > 0
    /\ pc # "idle" =>
          /\ inflight.rag.set
          /\ FullyConstructed(inflight.rag.obj)
    /\ last_ask.error \notin {"no_rag_system", "RAG system not initialized"}

\* A failed attempt, then a successful one, then an answered question.
C14_Witness ==
    /\ pdf_processed
    /\ tmp_files # {}
    /\ last_ingest.kind = "ok"
    /\ last_ingest.from = "Empty"
    /\ last_ask.kind = "answered"
    /\ last_ask.rag = rag_system

\* What one step may do to the chat history: it is emptied whenever
\* rag_system changes, and an entry is only appended for a question asked of
\* the object in rag_system, which that step leaves in place.
HistoryStep ==
    /\ rag_system' # rag_system => chat_history' = <<>>
    /\ chat_history' # chat_history =>
          \/ chat_history' = <<>>
          \/ /\ inflight.rag = rag_system
             /\ rag_system' = rag_system
             /\ chat_history' =
                   Append(chat_history,
                          [question |-> inflight.question,
                           answer |-> last_ask'.answer,
                           sources |-> extract_sources(inflight.context)])

\* C15: every source of every chat_history entry names the document of the
\* object now in rag_system, and every step treats the history as
\* HistoryStep says: no entry outlives the object that produced it.
C15_HistoryIsOfCurrentSystem ==
    /\ [](\A i \in 1..Len(chat_history) :
            /\ rag_system.set
            /\ \A j \in 1..Len(chat_history[i].sources) :
                  chat_history[i].sources[j].source = rag_system.obj.pdf_path)
    /\ [][HistoryStep]_vars

\* An answer of the second document in the history, after a first document
\* had been processed.
C15_Witness ==
    /\ Len(chat_history) >= 1
    /\ chat_history[1].sources # <<>>
    /\ rag_system.obj.pdf_path = 2
    /\ last_ingest.from = "Ready"
    /\ last_ingest.kind = "ok"

\* C16: when a Process Lease click has been handled, whether the ingestion
\* succeeded or failed, the temporary copy it wrote is no longer on disk
\* (unless the deletion itself was attempted and raised).
C16_TemporaryCopyDeleted ==
    (last_ingest.kind # "none" /\ last_ingest.unlink # "raised")
        => last_ingest.path \notin tmp_files

====
